---- MODULE Spec2Model ----
(***************************************************************************)
(* Model of SmartMeterSystem (src/app.py): the simulation clock, meter      *)
(* registration, the reading generator with its maintenance hour, the      *)
(* daily materializer, the monthly archiver, the retention pruner and the  *)
(* reset.                                                                  *)
(*                                                                         *)
(* A datetime is the number of minutes since 0001-01-01T00:00 of the       *)
(* proleptic Gregorian calendar, minus one day (ordinal * 1440 + minute of *)
(* day, as datetime.toordinal numbers the days).  Seconds are always zero  *)
(* in this program: the epoch has none and every step is a whole number of *)
(* minutes.  A timedelta is a number of minutes.                           *)
(*                                                                         *)
(* Meter values are integers in units of 0.0001 kWh, so that the rounding  *)
(* to three decimals is a real operation on them.                          *)
(***************************************************************************)
EXTENDS Integers, Sequences, FiniteSets, TLC

VARIABLES
    accounts_file,      \* all_account.json: the list of account records
    current_time_file,  \* current_time.json: <<>> when absent, else <<datetime>>
    daily_readings,     \* daily_readings/: month directory -> (day file -> daily_data)
    month_readings,     \* month_readings/month_readings.json: <<>> or <<monthly_data>>
    latest_readings,    \* self.latest_readings: meter_id -> unrounded running value
    daily_cache,        \* self.daily_cache: list of MeterReading
    rng,                \* state of the random module's generator
    ret,                \* outcome of the last call
    log,                \* flushes, archive passes and prunes made by the last call
    nops,               \* number of calls made so far
    requests            \* the collect requests being served: the locals of each

vars == <<accounts_file, current_time_file, daily_readings, month_readings,
          latest_readings, daily_cache, rng, ret, log, nops, requests>>

----------------------------------------------------------------------------
(* datetime, calendar *)

\* datetime.timedelta(minutes=n), (hours=n), (days=n)
TimedeltaMinutes(n) == n
TimedeltaHours(n) == n * 60
TimedeltaDays(n) == n * 1440

IsLeap(y) == (y % 4 = 0) /\ ((y % 100 # 0) \/ (y % 400 = 0))

\* calendar.monthrange(year, month)[1]
DaysInMonth(y, m) ==
    IF m = 2 THEN (IF IsLeap(y) THEN 29 ELSE 28)
    ELSE IF m \in {4, 6, 9, 11} THEN 30 ELSE 31

\* days of the year before the first day of month m
DaysBeforeMonth(y, m) ==
    <<0, 31, 59, 90, 120, 151, 181, 212, 243, 273, 304, 334>>[m]
    + (IF m > 2 /\ IsLeap(y) THEN 1 ELSE 0)

DaysBeforeYear(y) ==
    (y - 1) * 365 + ((y - 1) \div 4) - ((y - 1) \div 100) + ((y - 1) \div 400)

\* date(y, m, d).toordinal()
Ordinal(y, m, d) == DaysBeforeYear(y) + DaysBeforeMonth(y, m) + d

\* datetime.datetime(y, m, d, h, mi)
DT(y, m, d, h, mi) == TimedeltaDays(Ordinal(y, m, d)) + TimedeltaHours(h) + TimedeltaMinutes(mi)

OrdinalOf(t) == t \div TimedeltaDays(1)
MinuteOfDay(t) == t % TimedeltaDays(1)

\* date.fromordinal(n): <<year, month, day>>, by the cycles of 400, 100, 4 and 1
\* years as datetime computes it
ord2ymd_month(year, n, month) == <<year, month, n - DaysBeforeMonth(year, month) + 1>>

ord2ymd_year(year, n) ==
    LET guess == (n + 50) \div 32
    IN  ord2ymd_month(year, n, IF DaysBeforeMonth(year, guess) > n THEN guess - 1 ELSE guess)

ord2ymd_cycles(n400, n100, n4, n1, n) ==
    IF n1 = 4 \/ n100 = 4
    THEN <<n400 * 400 + n100 * 100 + n4 * 4 + n1, 12, 31>>
    ELSE ord2ymd_year(n400 * 400 + 1 + n100 * 100 + n4 * 4 + n1, n)

CivilOfOrdinal(ordinal) ==
    LET n0 == ordinal - 1
        r400 == n0 % 146097
        r100 == r400 % 36524
        r4 == r100 % 1461
    IN  ord2ymd_cycles(n0 \div 146097, r400 \div 36524, r100 \div 1461,
                       r4 \div 365, r4 % 365)

Civil(t) == CivilOfOrdinal(OrdinalOf(t))
Year(t) == Civil(t)[1]
Month(t) == Civil(t)[2]
Day(t) == Civil(t)[3]

Hour(t) == MinuteOfDay(t) \div TimedeltaHours(1)
Minute(t) == MinuteOfDay(t) % TimedeltaHours(1)

\* t.replace(day=1)
replace_day_1(t) == DT(Year(t), Month(t), 1, Hour(t), Minute(t))

\* datetime.date(): the calendar day of a datetime, as its midnight
DateOf(t) == TimedeltaDays(OrdinalOf(t))

\* datetime.datetime(2024, 5, 1): the start of the simulation
Epoch == DT(2024, 5, 1, 0, 0)

\* t.isoformat() and t.strftime("%Y-%m-%dT%H:%M:%S"): the text, as its fields
isoformat(t) == Civil(t) \o <<Hour(t), Minute(t), 0>>

\* datetime.fromisoformat(s)
fromisoformat(s) == DT(s[1], s[2], s[3], s[4], s[5])

\* t.strftime("%Y-%m-%d"), "%Y%m%d", "%Y%m" and "%Y-%m", "%H:%M": the text, as its fields
strftime_Ymd(t) == Civil(t)
strftime_Ym(t) == SubSeq(Civil(t), 1, 2)
strftime_HM(t) == <<Hour(t), Minute(t)>>

\* s1 < s2 for two texts of the same format (zero-padded fields compare as numbers)
RECURSIVE TextLess(_, _)
TextLess(s1, s2) ==
    IF s1 = <<>> \/ s2 = <<>> THEN s1 = <<>> /\ s2 # <<>>
    ELSE IF Head(s1) # Head(s2) THEN Head(s1) < Head(s2)
    ELSE TextLess(Tail(s1), Tail(s2))

----------------------------------------------------------------------------
(* _calculate_next_time *)

\* The result is [raised |-> FALSE, value |-> t], or [raised |-> TRUE, ...] for the
\* ValueError of the last branch.
Returned(v) == [raised |-> FALSE, value |-> v]
Raised(msg) == [raised |-> TRUE, error |-> msg]

\* a variant of next_day_of: the day is kept as it is
next_day_unclamped(day, last_day_of_next_month) == day

\* next_day = min(current_time.day, last_day_of_next_month)
next_day_of(day, last_day_of_next_month) ==
    IF day < last_day_of_next_month THEN day ELSE last_day_of_next_month

\* the 'months' branch of _calculate_next_time
add_months(current_time, increment_value) ==
    LET next_month0 == Month(current_time) + increment_value
        next_year == Year(current_time) + ((next_month0 - 1) \div 12)
        next_month == ((next_month0 - 1) % 12) + 1
        last_day_of_next_month == DaysInMonth(next_year, next_month)
        next_day == next_day_of(Day(current_time), last_day_of_next_month)
    IN  DT(next_year, next_month, next_day, Hour(current_time), Minute(current_time))

\* a variant of _calculate_next_time: a unit it does not know is taken as days
calculate_next_time_days_default(current_time, increment_unit, increment_value) ==
    IF increment_unit = "minutes"
    THEN Returned(current_time + TimedeltaMinutes(increment_value))
    ELSE IF increment_unit = "hours"
    THEN Returned(current_time + TimedeltaHours(increment_value))
    ELSE IF increment_unit = "months"
    THEN Returned(add_months(current_time, increment_value))
    ELSE Returned(current_time + TimedeltaDays(increment_value))

calculate_next_time(current_time, increment_unit, increment_value) ==
    IF increment_unit = "minutes"
    THEN Returned(current_time + TimedeltaMinutes(increment_value))
    ELSE IF increment_unit = "hours"
    THEN Returned(current_time + TimedeltaHours(increment_value))
    ELSE IF increment_unit = "days"
    THEN Returned(current_time + TimedeltaDays(increment_value))
    ELSE IF increment_unit = "months"
    THEN Returned(add_months(current_time, increment_value))
    ELSE Raised("Invalid time unit")

----------------------------------------------------------------------------
(* random.uniform(0, 1) and round(x, 3) *)

\* The generator of the random module is a deterministic stream from a seed the
\* process draws at start; it is modelled as a stream of period RngPeriod whose
\* seed Init chooses.  The draw is in units of 0.0001, within [0, 1]; the draws
\* are even, so that no sum of them lies half-way between two multiples of 0.001
\* and round3 does not depend on how a tie would be rounded.
RngPeriod == 3

random_uniform(r) == (r * 3338) % 10000
random_next(r) == (r + 1) % RngPeriod

\* round(x, 3) on a value in units of 0.0001: the nearest multiple of 0.001
round3(x) == ((x + 5) \div 10) * 10

----------------------------------------------------------------------------
(* Files and dictionaries *)

EmptyMap == [x \in {} |-> x]

\* f[k] = v on a dictionary
Put(f, k, v) == (k :> v) @@ f

\* A function or list written as [x \in S |-> e] is handed on as a table of its
\* values, so that e is computed once for each x
Table(f) == f @@ EmptyMap
List(s) == s \o <<>>

\* os.makedirs(month_dir, exist_ok=True) inside get_month_directory
get_month_directory(dirs, date) ==
    IF strftime_Ym(date) \in DOMAIN dirs THEN dirs
    ELSE Put(dirs, strftime_Ym(date), EmptyMap)

\* sorted(readings, key=lambda x: x["time"]): the stable sort, each element at the
\* rank its key and, among equal keys, its position give it
TimeRanks(xs) ==
    List([i \in DOMAIN xs |->
            Cardinality({j \in DOMAIN xs :
                \/ TextLess(xs[j].time, xs[i].time)
                \/ (xs[j].time = xs[i].time /\ j <= i)})])

Ranked(xs, rank) == List([p \in DOMAIN xs |-> xs[CHOOSE i \in DOMAIN xs : rank[i] = p]])

sorted_by_time(xs) == Ranked(xs, TimeRanks(xs))

\* sorted(os.listdir(dir)): the names of a directory, in order
SortedNames(names) ==
    LET rank == Table([n \in names |->
                        Cardinality({o \in names : o = n \/ TextLess(o, n)})])
    IN  List([p \in 1..Cardinality(names) |-> CHOOSE n \in names : rank[n] = p])

----------------------------------------------------------------------------
(* The state a call works on: the instance's tables, the data directory, the *)
(* random stream, the log of the call, and the storage fault of the call:    *)
(* io_left is the number of file writes that succeed before one raises       *)
(* (negative: none raises); failed is set once one has raised.               *)

\* open(path, "w") raising OSError
WriteRaises(st) == st.io_left = 0

Wrote(st) == IF st.io_left > 0 THEN [st EXCEPT !.io_left = @ - 1] ELSE st

\* the daily_data dictionary _process_daily_data builds from the buffer: for each
\* meter, in the order of the buffer, the time of day and the value of its readings
daily_data_of(cache, current_date) ==
    Table([m \in {cache[i].meter_id : i \in DOMAIN cache} |->
        LET of_m == SelectSeq(cache, LAMBDA r : r.meter_id = m)
        IN  [date |-> strftime_Ymd(current_date),
             readings |->
                List([i \in 1..Len(of_m) |->
                    [time |-> strftime_HM(fromisoformat(of_m[i].reading_time)),
                     value |-> round3(of_m[i].meter_value)]])]])

\* a variant of write_daily_file: the buffer is emptied and no file written
write_daily_file_dropped(st, dirs, month_dir, daily_file, daily_data) ==
    [st EXCEPT !.daily_readings = dirs, !.daily_cache = <<>>]

\* the end of _process_daily_data: the month directory is there, the file is
\* written and the buffer emptied, unless the write raises
write_daily_file(st, dirs, month_dir, daily_file, daily_data) ==
    IF WriteRaises(st)
    THEN [st EXCEPT !.daily_readings = dirs, !.failed = TRUE]
    ELSE [Wrote(st) EXCEPT
            !.daily_readings = Put(dirs, month_dir, Put(dirs[month_dir], daily_file, daily_data)),
            !.daily_cache = <<>>,
            !.log = Append(@, [kind |-> "flush", date |-> daily_file,
                               buffer |-> st.daily_cache])]

\* the record, in the log, of a call of _process_daily_data: the day it is keyed
\* to, the buffer it found (its length and the calendar days of its entries), the
\* length of the buffer it left, and whether the daily detail is as it was
Materialized(before, current_date, after) ==
    [after EXCEPT !.log = Append(@, [kind |-> "materialize",
                                     date |-> strftime_Ymd(current_date),
                                     raised |-> after.failed,
                                     buffered |-> Len(before.daily_cache),
                                     days |-> {SubSeq(before.daily_cache[i].reading_time, 1, 3) :
                                                  i \in DOMAIN before.daily_cache},
                                     left |-> Len(after.daily_cache),
                                     unchanged |-> after.daily_readings = before.daily_readings])]

\* a variant of materialize: the file of the day is written whatever the buffer holds
materialize_always(st, current_date) ==
    write_daily_file(st, get_month_directory(st.daily_readings, current_date),
                     strftime_Ym(current_date), strftime_Ymd(current_date),
                     daily_data_of(st.daily_cache, current_date))

\* the body of _process_daily_data, with _get_daily_file_path: nothing is done on
\* an empty buffer
materialize(st, current_date) ==
    IF st.daily_cache = <<>> THEN st
    ELSE write_daily_file(st, get_month_directory(st.daily_readings, current_date),
                          strftime_Ym(current_date), strftime_Ymd(current_date),
                          daily_data_of(st.daily_cache, current_date))

\* _process_daily_data(current_date)
process_daily_data(st, current_date) ==
    Materialized(st, current_date, materialize(st, current_date))

\* _cleanup_old_readings(last_month_first)
cleanup_old_readings(dirs, last_month_first) ==
    LET kept == {d \in DOMAIN dirs : ~(DT(d[1], d[2], 1, 0, 0) < last_month_first)}
    IN  Table([d \in kept |-> dirs[d]])

\* a variant of ScanDailyFiles: a meter's last reading is taken from the first file
\* it is in
ScanDailyFiles_FirstFile(files, month_files) ==
    LET meters == UNION {DOMAIN month_files[files[i]] : i \in DOMAIN files}
        With(m) == {i \in DOMAIN files : m \in DOMAIN month_files[files[i]]}
        first_file(m) == files[CHOOSE i \in With(m) : \A j \in With(m) : i <= j]
        readings(f, m) == sorted_by_time(month_files[f][m].readings)
    IN  [first_readings |->
            Table([m \in meters |-> readings(first_file(m), m)[1].value]),
         last_readings |->
            Table([m \in meters |->
                    LET last == readings(first_file(m), m) IN last[Len(last)].value])]

\* the loop over the daily files of the month, in order, and over the meters of
\* each: a meter's first reading is the first one, by time, of the first file it is
\* in, and its last reading is the last one, by time, of the last file it is in
ScanDailyFiles(files, month_files) ==
    LET meters == UNION {DOMAIN month_files[files[i]] : i \in DOMAIN files}
        With(m) == {i \in DOMAIN files : m \in DOMAIN month_files[files[i]]}
        first_file(m) == files[CHOOSE i \in With(m) : \A j \in With(m) : i <= j]
        last_file(m) == files[CHOOSE i \in With(m) : \A j \in With(m) : j <= i]
        readings(f, m) == sorted_by_time(month_files[f][m].readings)
    IN  [first_readings |->
            Table([m \in meters |-> readings(first_file(m), m)[1].value]),
         last_readings |->
            Table([m \in meters |->
                    LET last == readings(last_file(m), m) IN last[Len(last)].value])]

\* last_month_first: the first day of the month before the one of current_date
last_month_first_of(current_date) ==
    replace_day_1(DT(Year(current_date), Month(current_date), 1, 0, 0) - TimedeltaDays(1))

\* a variant of month_to_process_of: the month before the boundary's
month_to_process_last_month(last_month_first) == last_month_first

\* month_to_process: the first day of the month before last_month_first
month_to_process_of(last_month_first) == replace_day_1(last_month_first - TimedeltaDays(1))

\* month_readings.json as a dictionary: {} when the file is absent
MonthlyData(file) == IF file = <<>> THEN EmptyMap ELSE file[1]

\* a variant of monthly_usage: the meters not found in the month's files are dropped
monthly_usage_found_only(monthly_data, month_key, first_readings, last_readings) ==
    Table([m \in DOMAIN first_readings |->
        Put(IF m \in DOMAIN monthly_data THEN monthly_data[m] ELSE EmptyMap,
            month_key, round3(last_readings[m] - first_readings[m]))])

\* a variant of monthly_usage: a meter's totals of other months are dropped
monthly_usage_month_only(monthly_data, month_key, first_readings, last_readings) ==
    Table([m \in (DOMAIN monthly_data) \cup (DOMAIN first_readings) |->
        IF m \in DOMAIN first_readings /\ m \in DOMAIN last_readings
        THEN Put(EmptyMap, month_key, round3(last_readings[m] - first_readings[m]))
        ELSE monthly_data[m]])

\* "calculate monthly usage": the total of each meter found in the month's files is
\* set under month_key
monthly_usage(monthly_data, month_key, first_readings, last_readings) ==
    Table([m \in (DOMAIN monthly_data) \cup (DOMAIN first_readings) |->
        IF m \in DOMAIN first_readings /\ m \in DOMAIN last_readings
        THEN Put(IF m \in DOMAIN monthly_data THEN monthly_data[m] ELSE EmptyMap,
                 month_key, round3(last_readings[m] - first_readings[m]))
        ELSE monthly_data[m]])

\* the end of _archive_and_prepare_monthly_data: month_readings.json is written
\* and the old months are pruned, unless the write raises
write_monthly_file(st, dirs, merged, pruned) ==
    IF WriteRaises(st)
    THEN [st EXCEPT !.daily_readings = dirs, !.failed = TRUE]
    ELSE [Wrote(st) EXCEPT !.month_readings = <<merged>>, !.daily_readings = pruned]

\* the scan of the month's directory and the totals it gives
archive_month(st, last_month_first, month_key, dirs, scan) ==
    write_monthly_file(st, dirs,
                       monthly_usage(MonthlyData(st.month_readings), month_key,
                                     scan.first_readings, scan.last_readings),
                       cleanup_old_readings(dirs, last_month_first))

\* _archive_and_prepare_monthly_data, from the check of month_to_process on
archive_from(st, last_month_first, month_to_process, dirs) ==
    IF month_to_process < Epoch THEN st
    ELSE archive_month(st, last_month_first, strftime_Ym(month_to_process), dirs,
                       ScanDailyFiles(SortedNames(DOMAIN dirs[strftime_Ym(month_to_process)]),
                                      dirs[strftime_Ym(month_to_process)]))

\* _archive_and_prepare_monthly_data(current_date)
archive_and_prepare_monthly_data(st, current_date) ==
    archive_from(st, last_month_first_of(current_date),
                 month_to_process_of(last_month_first_of(current_date)),
                 get_month_directory(st.daily_readings,
                                     month_to_process_of(last_month_first_of(current_date))))

----------------------------------------------------------------------------
(* _generate_readings *)

\* a variant of new_meter_value: the increment is taken off
new_meter_value_minus(previous_value, increment) == previous_value - increment

\* meter_value = previous_value + increment
new_meter_value(previous_value, increment) == previous_value + increment

\* the loop over the accounts at one reading time; w holds st and all_readings,
\* and reading_time is reading_time.isoformat()
RECURSIVE GenerateForAccounts(_, _, _, _)
GenerateForAccounts(w, accounts, i, reading_time) ==
    IF i > Len(accounts) THEN w
    ELSE
        LET st == w.st
            meter_id == accounts[i].meter_ID
            previous_value == IF meter_id \in DOMAIN st.latest_readings
                              THEN st.latest_readings[meter_id] ELSE 0
            increment == random_uniform(st.rng)
            meter_value == new_meter_value(previous_value, increment)
            reading_dict == [meter_ID |-> meter_id,
                             reading_time |-> reading_time,
                             meter_value |-> round3(meter_value)]
            reading == [meter_id |-> meter_id,
                        reading_time |-> reading_time,
                        meter_value |-> round3(meter_value)]
        IN  GenerateForAccounts(
                [w EXCEPT !.st = [st EXCEPT !.rng = random_next(@),
                                            !.latest_readings = Put(@, meter_id, meter_value),
                                            !.daily_cache = Append(@, reading)],
                          !.all_readings = Append(@, reading_dict)],
                accounts, i + 1, reading_time)

\* current.replace(minute=0, second=0, microsecond=0)
TopOfHour(t) == t - TimedeltaMinutes(Minute(t))

\* current.replace(hour=1)
AtHourOne(t) == DateOf(t) + TimedeltaHours(1) + TimedeltaMinutes(Minute(t))

\* the record, in the log, of an archive pass at a boundary: the daily detail and
\* the monthly totals before it and after it
Archived(before, boundary, after) ==
    [after EXCEPT !.log = Append(@, [kind |-> "archive",
                                     boundary |-> boundary,
                                     raised |-> after.failed,
                                     daily_before |-> before.daily_readings,
                                     monthly_before |-> MonthlyData(before.month_readings),
                                     daily_after |-> after.daily_readings,
                                     monthly_after |-> MonthlyData(after.month_readings)])]

\* the second half of the maintenance period: the month is archived on day 1
MaintenanceArchive(flushed, current) ==
    IF flushed.failed THEN flushed
    ELSE IF Day(current) = 1
    THEN Archived(flushed, current, archive_and_prepare_monthly_data(flushed, current))
    ELSE flushed

\* the maintenance period of the walk: the day that ended is flushed, then the
\* month archived
Maintenance(st, current) ==
    MaintenanceArchive(
        IF DateOf(current - TimedeltaMinutes(1)) >= DateOf(Epoch)
        THEN process_daily_data(st, current - TimedeltaMinutes(1)) ELSE st,
        current)

\* a variant of WalkStops: the walk stops at the end of the window only
WalkStops_AtEndOnly(reading_time, next_time) == reading_time > next_time

\* reading_time > next_time or reading_time.hour == 0
WalkStops(reading_time, next_time) == reading_time > next_time \/ Hour(reading_time) = 0

\* one turn of `while current <= next_time`; w is [st, all_readings, current, done],
\* done once the loop has been left
WalkIteration(w, next_time, accounts) ==
    IF w.done \/ w.st.failed THEN w
    ELSE IF ~(w.current <= next_time) THEN [w EXCEPT !.done = TRUE]
    ELSE IF Hour(w.current) = 0
    THEN [w EXCEPT !.st = Maintenance(w.st, w.current), !.current = AtHourOne(w.current)]
    ELSE
        LET reading_time == w.current + TimedeltaMinutes(30)
        IN  IF WalkStops(reading_time, next_time) THEN [w EXCEPT !.done = TRUE]
            ELSE [GenerateForAccounts(w, accounts, 1, isoformat(reading_time))
                    EXCEPT !.current = reading_time]

\* n turns of the loop, by halves (the order is kept)
RECURSIVE WalkIterations(_, _, _, _)
WalkIterations(w, n, next_time, accounts) ==
    IF n <= 0 THEN w
    ELSE IF n = 1 THEN WalkIteration(w, next_time, accounts)
    ELSE LET half == WalkIterations(w, n \div 2, next_time, accounts)
         IN  IF half.done \/ half.st.failed THEN half
             ELSE WalkIterations(half, n - (n \div 2), next_time, accounts)

\* the whole loop: a turn either leaves it or moves current at least 30 minutes on,
\* so it is left within (next_time - current) / 30 + 2 turns
Walk(st, current, next_time, accounts) ==
    WalkIterations([st |-> st, all_readings |-> <<>>, current |-> current, done |-> FALSE],
                   IF next_time - current < 0 THEN 1
                   ELSE ((next_time - current) \div TimedeltaMinutes(30)) + 2,
                   next_time, accounts)

\* the walk's outcome handed back with the buffer as it is
FlushLast_Skipped(w) == [st |-> w.st, all_readings |-> w.all_readings]

\* "Process data for the last day": the flush after the walk, w the walk's outcome
FlushLast(w) ==
    IF w.st.failed \/ w.st.daily_cache = <<>>
    THEN [st |-> w.st, all_readings |-> w.all_readings]
    ELSE [st |-> process_daily_data(w.st,
                    fromisoformat(w.st.daily_cache[Len(w.st.daily_cache)].reading_time)),
          all_readings |-> w.all_readings]

\* _generate_readings on a span of at most one day
generate_window(st, current_time, next_time, accounts) ==
    FlushLast(Walk(st, TopOfHour(current_time), next_time, accounts))

\* all_readings.extend(daily_readings)
extend(all_readings, daily) ==
    [st |-> daily.st, all_readings |-> all_readings \o daily.all_readings]

\* min(temp_current + datetime.timedelta(days=1), next_time)
day_end_of(temp_current, next_time) ==
    IF temp_current + TimedeltaDays(1) < next_time
    THEN temp_current + TimedeltaDays(1) ELSE next_time

\* a variant of DayIteration: every iteration works on the first day
DayIteration_FirstDay(acc, current_time, k, next_time, accounts) ==
    IF acc.st.failed THEN acc
    ELSE extend(acc.all_readings,
                generate_window(acc.st, current_time,
                                day_end_of(current_time, next_time), accounts))

\* iteration k of the day-by-day loops of _generate_readings and of collect_readings
\* ('months'): it works on the day starting at current_time + k days.  An iteration
\* after a raised error does nothing.
DayIteration(acc, current_time, k, next_time, accounts) ==
    IF acc.st.failed THEN acc
    ELSE extend(acc.all_readings,
                generate_window(acc.st, current_time + TimedeltaDays(k),
                                day_end_of(current_time + TimedeltaDays(k), next_time),
                                accounts))

\* the iterations lo..hi, by halves (the order is kept)
RECURSIVE DayIterations(_, _, _, _, _, _)
DayIterations(acc, current_time, lo, hi, next_time, accounts) ==
    IF lo > hi THEN acc
    ELSE IF lo = hi THEN DayIteration(acc, current_time, lo, next_time, accounts)
    ELSE LET mid == (lo + hi) \div 2
             first == DayIterations(acc, current_time, lo, mid, next_time, accounts)
         IN  IF first.st.failed THEN first
             ELSE DayIterations(first, current_time, mid + 1, hi, next_time, accounts)

\* while temp_current < next_time, temp_current += one day: the number of turns
DayTurns(span) ==
    IF span <= 0 THEN 0 ELSE (span + TimedeltaDays(1) - 1) \div TimedeltaDays(1)

\* the windows of a call: collect_readings walks 'months' day by day, and
\* _generate_readings walks a span of more than one day day by day; any other span
\* is one window, from current_time to next_time
Windows(increment_unit, current_time, next_time) ==
    IF increment_unit = "months" \/ next_time - current_time > TimedeltaDays(1)
    THEN DayTurns(next_time - current_time)
    ELSE 1

\* the readings of a call: the windows in order
generate_readings(st, current_time, next_time, accounts, windows) ==
    DayIterations([st |-> st, all_readings |-> <<>>], current_time,
                  0, windows - 1, next_time, accounts)

----------------------------------------------------------------------------
(* The calls *)

\* get_current_time(): the value read; the file is created when it is absent
get_current_time == IF current_time_file = <<>> THEN Epoch ELSE current_time_file[1]

\* load_accounts()
load_accounts == accounts_file

Working(io) ==
    [latest_readings |-> latest_readings, daily_cache |-> daily_cache,
     daily_readings |-> daily_readings, month_readings |-> month_readings,
     rng |-> rng, log |-> <<>>, io_left |-> io, failed |-> FALSE]

Commit(st) ==
    /\ latest_readings' = st.latest_readings
    /\ daily_cache' = st.daily_cache
    /\ daily_readings' = st.daily_readings
    /\ month_readings' = st.month_readings
    /\ rng' = st.rng
    /\ log' = st.log

\* a variant of meter_id_exists: the first account only is looked at
meter_id_exists_first(accounts, meter_id) ==
    accounts # <<>> /\ accounts[1].meter_ID = meter_id

\* any(account["meter_ID"] == meter_id for account in accounts)
meter_id_exists(accounts, meter_id) ==
    \E i \in DOMAIN accounts : accounts[i].meter_ID = meter_id

\* register_meter(meter_id, area, dwelling)
register_meter(meter_id, area, dwelling) ==
    LET accounts == load_accounts
    IN  IF meter_id_exists(accounts, meter_id)
        THEN /\ ret' = [op |-> "register", status |-> "error",
                        error |-> "Meter ID already exists", meter_id |-> meter_id]
             /\ log' = <<>>
             /\ UNCHANGED <<accounts_file, current_time_file, daily_readings,
                            month_readings, latest_readings, daily_cache, rng>>
        ELSE
            LET current_time == get_current_time
                formatted_time == isoformat(current_time)
                account == [meter_ID |-> meter_id, area |-> area, dwelling |-> dwelling,
                            register_time |-> formatted_time]
                reading == [meter_id |-> meter_id, reading_time |-> formatted_time,
                            meter_value |-> 0]
            IN  /\ current_time_file' = <<current_time>>
                /\ accounts_file' = Append(accounts, account)
                /\ latest_readings' = Put(latest_readings, meter_id, 0)
                /\ daily_cache' = Append(daily_cache, reading)
                /\ ret' = [op |-> "register", status |-> "ok", account |-> account,
                           meter_id |-> meter_id]
                /\ log' = <<>>
                /\ UNCHANGED <<daily_readings, month_readings, rng>>

\* the first three readings: all_readings[:3]
FirstThree(xs) == SubSeq(xs, 1, IF Len(xs) < 3 THEN Len(xs) ELSE 3)

\* a variant of save_current_time_after: the clock is saved before the walk
save_current_time_before(failed, current_time, next_time) == <<next_time>>

\* a variant of save_current_time_after: the amount of the call is added to the
\* clock as it is when the call ends
save_current_time_added(failed, current_time, next_time) ==
    <<get_current_time + (next_time - current_time)>>

\* the clock file after the walk of a collect: save_current_time(next_time) is
\* the statement after the walk, and an exception of the walk leaves the method
\* before it
save_current_time_after(failed, current_time, next_time) ==
    IF failed THEN <<current_time>> ELSE <<next_time>>

\* the end of collect_readings: the clock is saved and the summary returned, or
\* the error of the walk is raised; done is the outcome of the walk
collect_return(call, current_time, next_time, done) ==
    /\ Commit(done.st)
    /\ UNCHANGED accounts_file
    /\ current_time_file' = save_current_time_after(done.st.failed, current_time, next_time)
    /\ ret' = IF done.st.failed
              THEN call @@ [status |-> "failed", error |-> "OSError", from |-> current_time]
              ELSE call @@ [status |-> "ok",
                            from |-> current_time,
                            new_time |-> next_time,
                            readings_count |-> Len(done.all_readings),
                            sample_readings |-> FirstThree(done.all_readings),
                            all_readings |-> done.all_readings]

\* collect_readings(increment_unit, increment_value); io is the storage fault of
\* the call
collect_readings(increment_unit, increment_value, io) ==
    LET accounts == load_accounts
        call == [op |-> "collect", unit |-> increment_unit, value |-> increment_value]
        current_time == get_current_time
        next == calculate_next_time(current_time, increment_unit, increment_value)
    IN  IF accounts = <<>>
        THEN /\ ret' = call @@ [status |-> "error", error |-> "No registered accounts"]
             /\ log' = <<>>
             /\ UNCHANGED <<accounts_file, current_time_file, daily_readings,
                            month_readings, latest_readings, daily_cache, rng>>
        ELSE IF next.raised
        THEN /\ ret' = call @@ [status |-> "error", error |-> next.error]
             /\ current_time_file' = <<current_time>>
             /\ log' = <<>>
             /\ UNCHANGED <<accounts_file, daily_readings, month_readings,
                            latest_readings, daily_cache, rng>>
        ELSE collect_return(call, current_time, next.value,
                            generate_readings(Working(io), current_time, next.value, accounts,
                                              Windows(increment_unit, current_time, next.value)))

\* a variant of reset_system: the buffer is left as it is
reset_system_keeps_buffer(done) ==
    LET all == done < 0
    IN  /\ daily_readings' = IF all \/ done >= 1 THEN EmptyMap ELSE daily_readings
        /\ month_readings' = IF all \/ done >= 2 THEN <<>> ELSE month_readings
        /\ accounts_file' = IF all \/ done >= 3 THEN <<>> ELSE accounts_file
        /\ current_time_file' = IF all THEN <<Epoch>> ELSE current_time_file
        /\ latest_readings' = IF all THEN EmptyMap ELSE latest_readings
        /\ daily_cache' = daily_cache
        /\ ret' = [op |-> "reset", status |-> IF all THEN "ok" ELSE "failed", value |-> all,
                   before |-> [accounts |-> Len(accounts_file),
                               current_time |-> get_current_time,
                               daily_records |-> daily_readings # EmptyMap,
                               monthly_totals |-> month_readings # <<>>,
                               latest |-> latest_readings # EmptyMap,
                               buffered |-> Len(daily_cache)]]
        /\ log' = <<>>
        /\ UNCHANGED rng

\* reset_system(); done is the number of its storage steps that succeed before
\* one raises (negative: none raises)
reset_system(done) ==
    LET all == done < 0
    IN  /\ daily_readings' = IF all \/ done >= 1 THEN EmptyMap ELSE daily_readings
        /\ month_readings' = IF all \/ done >= 2 THEN <<>> ELSE month_readings
        /\ accounts_file' = IF all \/ done >= 3 THEN <<>> ELSE accounts_file
        /\ current_time_file' = IF all THEN <<Epoch>> ELSE current_time_file
        /\ latest_readings' = IF all THEN EmptyMap ELSE latest_readings
        /\ daily_cache' = IF all THEN <<>> ELSE daily_cache
        /\ ret' = [op |-> "reset", status |-> IF all THEN "ok" ELSE "failed", value |-> all,
                   before |-> [accounts |-> Len(accounts_file),
                               current_time |-> get_current_time,
                               daily_records |-> daily_readings # EmptyMap,
                               monthly_totals |-> month_readings # <<>>,
                               latest |-> latest_readings # EmptyMap,
                               buffered |-> Len(daily_cache)]]
        /\ log' = <<>>
        /\ UNCHANGED rng

----------------------------------------------------------------------------
(* The requests being served.  The server of app.run() serves each request *)
(* in a thread of its own, and collect_readings takes no lock: the locals  *)
(* of a request are its own, the files, self.latest_readings,              *)
(* self.daily_cache and the generator are shared.                          *)

Requests == {1, 2}

\* a request not yet received; buffered and took are history: the number of the
\* request's readings in self.daily_cache, and whether a flush of the request wrote
\* and cleared readings another request had appended
NoRequest ==
    [pc |-> "idle", unit |-> "", value |-> 0, accounts |-> <<>>, current_time |-> 0,
     next_time |-> 0, current |-> 0, all_readings |-> <<>>, status |-> "",
     buffered |-> 0, took |-> FALSE]

NoRequests == [i \in Requests |-> NoRequest]

----------------------------------------------------------------------------
(* The system: any calls, in any order *)

MaxOps == 3

Meters == {"m1", "m2"}
Areas == {"north"}
Dwellings == {"flat"}

\* unit and value of the collect calls made
CollectInputs ==
    {<<"minutes", 30>>, <<"minutes", 90>>, <<"hours", 12>>, <<"days", 1>>, <<"days", 2>>,
     <<"weeks", 1>>, <<"minutes", 0>>, <<"hours", -1>>}

\* the collect calls during which a write to storage raises
FaultInputs == {<<"hours", 12>>, <<"days", 2>>}

\* the state after SmartMeterSystem(base_dir) on an empty directory
Init ==
    /\ accounts_file = <<>>
    /\ current_time_file = <<>>
    /\ daily_readings = EmptyMap
    /\ month_readings = <<>>
    /\ latest_readings = EmptyMap
    /\ daily_cache = <<>>
    /\ rng \in 0..(RngPeriod - 1)
    /\ ret = [op |-> "init", status |-> "ok"]
    /\ log = <<>>
    /\ nops = 0
    /\ requests = NoRequests

Register ==
    /\ nops < MaxOps
    /\ nops' = nops + 1
    /\ UNCHANGED requests
    /\ \E m \in Meters, a \in Areas, d \in Dwellings : register_meter(m, a, d)

Collect ==
    /\ nops < MaxOps
    /\ nops' = nops + 1
    /\ UNCHANGED requests
    /\ \E c \in CollectInputs : collect_readings(c[1], c[2], -1)

CollectFault ==
    /\ nops < MaxOps
    /\ nops' = nops + 1
    /\ UNCHANGED requests
    /\ \E c \in FaultInputs, io \in 0..1 : collect_readings(c[1], c[2], io)

Reset ==
    /\ nops < MaxOps
    /\ nops' = nops + 1
    /\ UNCHANGED requests
    /\ reset_system(-1)

ResetFault ==
    /\ nops < MaxOps
    /\ nops' = nops + 1
    /\ UNCHANGED requests
    /\ \E done \in 0..3 : reset_system(done)

Next == Register \/ Collect \/ CollectFault \/ Reset \/ ResetFault

Spec == Init /\ [][Next]_vars

----------------------------------------------------------------------------
(* One run of the system without a reset: register and collect calls only *)

NextRun == Register \/ Collect \/ CollectFault

SpecRun == Init /\ [][NextRun]_vars

----------------------------------------------------------------------------
(* The system collecting whole days from the start of the simulation *)

\* the numbers of days collected: within May, up to the boundaries of June and of
\* July, and beyond them
DayAmounts == {1, 2, 31, 61, 62, 93}

DaysRegister ==
    /\ UNCHANGED <<nops, requests>>
    /\ \E m \in Meters, a \in Areas, d \in Dwellings : register_meter(m, a, d)

DaysCollect ==
    /\ UNCHANGED <<nops, requests>>
    /\ get_current_time = Epoch
    /\ \E n \in DayAmounts : collect_readings("days", n, -1)

NextDays == DaysRegister \/ DaysCollect

SpecDays == Init /\ [][NextDays]_vars

----------------------------------------------------------------------------
(* The Time Advancer on its own: _calculate_next_time on a stored clock *)

AdvanceTimes ==
    {DT(2024, 1, 31, 0, 0), DT(2024, 3, 31, 0, 0), DT(2023, 1, 31, 10, 30),
     DT(2024, 5, 1, 0, 0), DT(2024, 12, 15, 23, 30), DT(2024, 2, 29, 1, 0),
     DT(2023, 11, 30, 12, 0), DT(2100, 1, 29, 6, 30)}

AdvanceUnits == {"minutes", "hours", "days", "months", "weeks"}

MaxAmount == 14

InitAdvance ==
    /\ accounts_file = <<>>
    /\ current_time_file \in {<<t>> : t \in AdvanceTimes}
    /\ daily_readings = EmptyMap
    /\ month_readings = <<>>
    /\ latest_readings = EmptyMap
    /\ daily_cache = <<>>
    /\ rng = 0
    /\ ret = [op |-> "init", status |-> "ok"]
    /\ log = <<>>
    /\ nops = 0
    /\ requests = NoRequests

Advance ==
    /\ \E unit \in AdvanceUnits, amount \in (-MaxAmount)..MaxAmount :
          ret' = [op |-> "advance", current |-> get_current_time, unit |-> unit,
                  amount |-> amount,
                  next |-> calculate_next_time(get_current_time, unit, amount)]
    /\ UNCHANGED <<accounts_file, current_time_file, daily_readings, month_readings,
                   latest_readings, daily_cache, rng, log, nops, requests>>

NextAdvance == Advance

SpecAdvance == InitAdvance /\ [][NextAdvance]_vars

----------------------------------------------------------------------------
(* The system over months: the archiver and the pruner at the month boundaries *)

MaxArchiveOps == 4

ArchiveInputs == {<<"months", -2>>, <<"months", 1>>, <<"months", 2>>, <<"days", 1>>}

InitArchive ==
    /\ accounts_file = <<>>
    /\ current_time_file = <<>>
    /\ daily_readings = EmptyMap
    /\ month_readings = <<>>
    /\ latest_readings = EmptyMap
    /\ daily_cache = <<>>
    /\ rng = 1
    /\ ret = [op |-> "init", status |-> "ok"]
    /\ log = <<>>
    /\ nops = 0
    /\ requests = NoRequests

ArchiveRegister ==
    /\ nops < MaxArchiveOps
    /\ nops' = nops + 1
    /\ UNCHANGED requests
    /\ \E m \in Meters, a \in Areas, d \in Dwellings : register_meter(m, a, d)

ArchiveCollect ==
    /\ nops < MaxArchiveOps
    /\ nops' = nops + 1
    /\ UNCHANGED requests
    /\ \E c \in ArchiveInputs : collect_readings(c[1], c[2], -1)

NextArchive == ArchiveRegister \/ ArchiveCollect

SpecArchive == InitArchive /\ [][NextArchive]_vars

----------------------------------------------------------------------------
(* The system with meters registered between collects, at clocks on and off *)
(* the half hour                                                            *)

MaxLateOps == 4

LateInputs == {<<"minutes", 105>>, <<"minutes", 30>>, <<"days", 1>>, <<"days", 2>>}

LateRegister ==
    /\ nops < MaxLateOps
    /\ nops' = nops + 1
    /\ UNCHANGED requests
    /\ \E m \in Meters, a \in Areas, d \in Dwellings : register_meter(m, a, d)

LateCollect ==
    /\ nops < MaxLateOps
    /\ nops' = nops + 1
    /\ UNCHANGED requests
    /\ \E c \in LateInputs : collect_readings(c[1], c[2], -1)

NextLate == LateRegister \/ LateCollect

SpecLate == Init /\ [][NextLate]_vars

----------------------------------------------------------------------------
(* The system over months, from clocks at midnight and from clocks at noon *)

MaxNoonOps == 5

NoonInputs == {<<"hours", 12>>, <<"days", 62>>}

NoonRegister ==
    /\ nops < MaxNoonOps
    /\ nops' = nops + 1
    /\ UNCHANGED requests
    /\ \E m \in Meters, a \in Areas, d \in Dwellings : register_meter(m, a, d)

NoonCollect ==
    /\ nops < MaxNoonOps
    /\ nops' = nops + 1
    /\ UNCHANGED requests
    /\ \E c \in NoonInputs : collect_readings(c[1], c[2], -1)

NextNoon == NoonRegister \/ NoonCollect

SpecNoon == InitArchive /\ [][NextNoon]_vars

----------------------------------------------------------------------------
(* The system stepped by half hours at a month boundary: successive collects *)
(* that each start inside the hour 00:00 of day 1                            *)

MaxStepOps == 4

StepInputs == {<<"days", 61>>, <<"minutes", 30>>}

StepRegister ==
    /\ nops < MaxStepOps
    /\ nops' = nops + 1
    /\ UNCHANGED requests
    /\ \E m \in Meters, a \in Areas, d \in Dwellings : register_meter(m, a, d)

StepCollect ==
    /\ nops < MaxStepOps
    /\ nops' = nops + 1
    /\ UNCHANGED requests
    /\ \E c \in StepInputs : collect_readings(c[1], c[2], -1)

NextStep == StepRegister \/ StepCollect

SpecStep == InitArchive /\ [][NextStep]_vars

----------------------------------------------------------------------------
(* Two collect requests served at the same time, on meters registered      *)
(* before them.  A request takes its steps in the order of the code; the   *)
(* steps of the two requests come in any order.  A step is a piece of the  *)
(* method that runs without the other request in between: the statements   *)
(* before the walk, one turn of the loop of the walk, the flush after the  *)
(* loop, the save of the clock.  The spans are of at most one day, which   *)
(* _generate_readings walks as one window.                                 *)

MaxRegistrations == 2

ConcurrentInputs == {<<"minutes", 90>>, <<"hours", 2>>}

ConcurrentRegister ==
    /\ \A i \in Requests : requests[i].pc = "idle"
    /\ nops < MaxRegistrations
    /\ nops' = nops + 1
    /\ UNCHANGED requests
    /\ \E m \in Meters, a \in Areas, d \in Dwellings : register_meter(m, a, d)

\* collect_readings up to the call of _generate_readings, and the first statements
\* of _generate_readings: the accounts and the clock are read, next_time computed
\* and current set to the top of the hour
begin_collect(i, increment_unit, increment_value, accounts, current_time, next) ==
    LET call == [op |-> "collect", unit |-> increment_unit, value |-> increment_value]
        r == [requests[i] EXCEPT !.unit = increment_unit, !.value = increment_value]
    IN  IF accounts = <<>>
        THEN /\ ret' = call @@ [status |-> "error", error |-> "No registered accounts"]
             /\ requests' = [requests EXCEPT ![i] = [r EXCEPT !.pc = "done",
                                                               !.status = "error"]]
             /\ UNCHANGED <<accounts_file, current_time_file, daily_readings,
                            month_readings, latest_readings, daily_cache, rng, log>>
        ELSE IF next.raised
        THEN /\ ret' = call @@ [status |-> "error", error |-> next.error]
             /\ current_time_file' = <<current_time>>
             /\ requests' = [requests EXCEPT ![i] = [r EXCEPT !.pc = "done",
                                                               !.status = "error"]]
             /\ UNCHANGED <<accounts_file, daily_readings, month_readings,
                            latest_readings, daily_cache, rng, log>>
        ELSE /\ current_time_file' = <<current_time>>
             /\ requests' = [requests EXCEPT ![i] =
                                [r EXCEPT !.pc = "walk",
                                          !.accounts = accounts,
                                          !.current_time = current_time,
                                          !.next_time = next.value,
                                          !.current = TopOfHour(current_time)]]
             /\ UNCHANGED <<accounts_file, daily_readings, month_readings,
                            latest_readings, daily_cache, rng, ret, log>>

RequestBegin ==
    /\ UNCHANGED nops
    /\ \E i \in Requests, c \in ConcurrentInputs :
          /\ requests[i].pc = "idle"
          /\ begin_collect(i, c[1], c[2], load_accounts, get_current_time,
                           calculate_next_time(get_current_time, c[1], c[2]))

\* the state after a step of request i on the shared state: r is the request after
\* the step and st the shared state after it.  A flush empties the buffer of the
\* readings of every request.
Served(i, r, st) ==
    LET flushed == \E n \in DOMAIN st.log : st.log[n].kind = "flush"
    IN  /\ Commit(st)
        /\ requests' =
              [k \in Requests |->
                  IF k = i
                  THEN [r EXCEPT
                          !.buffered = IF flushed THEN 0
                                       ELSE @ + Len(r.all_readings)
                                              - Len(requests[i].all_readings),
                          !.took = @ \/ (flushed /\ \E j \in Requests \ {i} :
                                                      requests[j].buffered > 0)]
                  ELSE IF flushed THEN [requests[k] EXCEPT !.buffered = 0]
                  ELSE requests[k]]
        /\ UNCHANGED <<accounts_file, current_time_file, ret, nops>>

\* one turn of `while current <= next_time` of request i; w is the outcome of the turn
walk_turn(i, w) ==
    Served(i, [requests[i] EXCEPT !.current = w.current,
                                  !.all_readings = w.all_readings,
                                  !.pc = IF w.done THEN "flush" ELSE "walk"], w.st)

RequestTurn ==
    \E i \in Requests :
        /\ requests[i].pc = "walk"
        /\ walk_turn(i, WalkIteration([st |-> Working(-1),
                                       all_readings |-> requests[i].all_readings,
                                       current |-> requests[i].current,
                                       done |-> FALSE],
                                      requests[i].next_time, requests[i].accounts))

\* "Process data for the last day" of request i; f is the outcome of the flush
flush_last(i, f) == Served(i, [requests[i] EXCEPT !.pc = "save"], f.st)

RequestFlush ==
    \E i \in Requests :
        /\ requests[i].pc = "flush"
        /\ flush_last(i, FlushLast([st |-> Working(-1),
                                    all_readings |-> requests[i].all_readings]))

\* the end of collect_readings of request i: the clock is saved and the summary
\* returned
end_collect(i, r) ==
    /\ current_time_file' = save_current_time_after(FALSE, r.current_time, r.next_time)
    /\ ret' = [op |-> "collect", unit |-> r.unit, value |-> r.value, status |-> "ok",
               from |-> r.current_time,
               new_time |-> r.next_time,
               readings_count |-> Len(r.all_readings),
               sample_readings |-> FirstThree(r.all_readings),
               all_readings |-> r.all_readings]
    /\ requests' = [requests EXCEPT ![i] = [r EXCEPT !.pc = "done", !.status = "ok"]]
    /\ UNCHANGED <<accounts_file, daily_readings, month_readings, latest_readings,
                   daily_cache, rng, log, nops>>

RequestSave ==
    \E i \in Requests : requests[i].pc = "save" /\ end_collect(i, requests[i])

NextConcurrent ==
    ConcurrentRegister \/ RequestBegin \/ RequestTurn \/ RequestFlush \/ RequestSave

SpecConcurrent == InitArchive /\ [][NextConcurrent]_vars

----------------------------------------------------------------------------
(* Properties *)

\* the days that have a daily record: the names of the files of daily_readings/
DailyRecordDays(dirs) == UNION {DOMAIN dirs[d] : d \in DOMAIN dirs}

\* every daily record lies in the directory of its month and names its own day
RecordsNamed(dirs) ==
    \A d \in DOMAIN dirs : \A f \in DOMAIN dirs[d] :
        /\ SubSeq(f, 1, 2) = d
        /\ \A m \in DOMAIN dirs[d][f] : dirs[d][f][m].date = f

\* the n calendar days from the day of t on
DaysFrom(t, n) == {strftime_Ymd(t + TimedeltaDays(k)) : k \in 0..(n - 1)}

\* the calendar day of a reading
ReadingDay(r) == SubSeq(r.reading_time, 1, 3)
ReadingHour(r) == r.reading_time[4]

\* the first day of the month before the month of t
MonthBefore(t) ==
    IF Month(t) = 1 THEN DT(Year(t) - 1, 12, 1, 0, 0) ELSE DT(Year(t), Month(t) - 1, 1, 0, 0)

\* the initial state with one registered meter
InitialWithOneMeter ==
    /\ Len(accounts_file) = 1
    /\ current_time_file = <<Epoch>>
    /\ daily_readings = EmptyMap
    /\ month_readings = <<>>
    /\ latest_readings = (accounts_file[1].meter_ID :> 0)
    /\ daily_cache = <<[meter_id |-> accounts_file[1].meter_ID,
                         reading_time |-> isoformat(Epoch), meter_value |-> 0]>>

\* a step that is a successful collect(days, n), n >= 1, from that state
CollectsDaysFromStart ==
    /\ InitialWithOneMeter
    /\ ret'.op = "collect" /\ ret'.status = "ok"
    /\ ret'.unit = "days" /\ ret'.value >= 1

\* what C1 states of the readings returned and of the clock
ReadingsAndClockOfDays ==
    /\ \A i \in DOMAIN ret'.all_readings :
          /\ ReadingDay(ret'.all_readings[i]) \in DaysFrom(Epoch, ret'.value)
          /\ ReadingHour(ret'.all_readings[i]) # 0
    /\ \A day \in DaysFrom(Epoch, ret'.value) :
          \E i \in DOMAIN ret'.all_readings : ReadingDay(ret'.all_readings[i]) = day
    /\ current_time_file' = <<Epoch + TimedeltaDays(ret'.value)>>

\* the days of a collect(days, n) from the start whose records the pruner leaves:
\* all of them while the last day collected is before 2024-07-01, and afterwards
\* those from the first day of the month before the month of the last day collected
DaysKept(n) ==
    LET last == Epoch + TimedeltaDays(n - 1)
    IN  {strftime_Ymd(Epoch + TimedeltaDays(k)) :
            k \in {j \in 0..(n - 1) :
                      last >= DT(2024, 7, 1, 0, 0)
                          => Epoch + TimedeltaDays(j) >= MonthBefore(last)}}

\* C1 (as amended): for every n >= 1, collect(days, n) from the initial state with
\* one registered meter returns readings dated only on the n calendar days starting
\* 2024-05-01 (some on each), none in the blackout hour, sets the clock to
\* 2024-05-01T00:00 plus n days, and leaves one daily record for each day the
\* pruner has not removed: for exactly the n days when n <= 61, and, when the last
\* day collected is 2024-07-01 or later, for exactly the days from the first day
\* of the month before the month of the last day collected.
C1_DaysFromStart ==
    [][CollectsDaysFromStart =>
        /\ ReadingsAndClockOfDays
        /\ RecordsNamed(daily_readings')
        /\ DailyRecordDays(daily_readings') = DaysKept(ret'.value)
        /\ ret'.value <= 61 =>
              /\ DailyRecordDays(daily_readings') = DaysFrom(Epoch, ret'.value)
              /\ Cardinality(DailyRecordDays(daily_readings')) = ret'.value
        /\ ret'.value = 2 =>
              /\ {ReadingDay(ret'.all_readings[i]) : i \in DOMAIN ret'.all_readings}
                    = {<<2024, 5, 1>>, <<2024, 5, 2>>}
              /\ current_time_file' = <<DT(2024, 5, 3, 0, 0)>>
              /\ DailyRecordDays(daily_readings') = {<<2024, 5, 1>>, <<2024, 5, 2>>}]_vars

\* C1 as stated: exactly n daily records, one per day, for every n >= 1
C1_AsStated ==
    [][CollectsDaysFromStart =>
        /\ ReadingsAndClockOfDays
        /\ DailyRecordDays(daily_readings') = DaysFrom(Epoch, ret'.value)
        /\ Cardinality(DailyRecordDays(daily_readings')) = ret'.value]_vars

\* a collect(days, n) from the start that went past 2024-07-01 and left fewer
\* than n daily records
C1_Witness ==
    /\ ret.op = "collect" /\ ret.status = "ok" /\ ret.unit = "days"
    /\ ret.from = Epoch /\ ret.value >= 62
    /\ Len(accounts_file) = 1
    /\ ret.readings_count = 45 * ret.value
    /\ Cardinality(DailyRecordDays(daily_readings)) < ret.value

\* the readings a collect returned for meter m, in the order of their generation
ValuesOf(all_readings, m) ==
    LET of_m == SelectSeq(all_readings, LAMBDA r : r.meter_ID = m)
    IN  [i \in DOMAIN of_m |-> of_m[i].meter_value]

\* C2: for every collect call, whatever the clock value, the unit and the amount,
\* every reading the generator returned has a timestamp whose hour is not 0.
C2_NoReadingInBlackout ==
    (ret.op = "collect" /\ ret.status = "ok") =>
        \A i \in DOMAIN ret.all_readings : ReadingHour(ret.all_readings[i]) # 0

\* a collect that started off the hour and returned readings of more than one day
C2_Witness ==
    /\ ret.op = "collect" /\ ret.status = "ok"
    /\ Minute(ret.from) # 0
    /\ \E i, j \in DOMAIN ret.all_readings :
          ReadingDay(ret.all_readings[i]) # ReadingDay(ret.all_readings[j])

\* C3: the values generated for a meter during one collect are non-decreasing in
\* the order of their generation, none is below the meter's value before the call,
\* and across register and collect calls (no reset) the meter's entry of
\* latest_readings never decreases.
C3_ValuesNeverDecrease ==
    [][/\ ret'.op \in {"register", "collect"} =>
            \A m \in DOMAIN latest_readings :
                /\ m \in DOMAIN latest_readings'
                /\ latest_readings'[m] >= latest_readings[m]
       /\ (ret'.op = "collect" /\ ret'.status = "ok") =>
            \A k \in DOMAIN accounts_file :
                LET m == accounts_file[k].meter_ID
                    values == ValuesOf(ret'.all_readings, m)
                IN  /\ \A i, j \in DOMAIN values : i < j => values[i] <= values[j]
                    /\ \A i \in DOMAIN values :
                          m \in DOMAIN latest_readings
                              => values[i] >= round3(latest_readings[m])]_vars

\* a second collect for a meter, whose values went up during the call
C3_Witness ==
    /\ ret.op = "collect" /\ ret.status = "ok" /\ ret.from > Epoch
    /\ \E k \in DOMAIN accounts_file :
          LET values == ValuesOf(ret.all_readings, accounts_file[k].meter_ID)
          IN  Len(values) >= 2 /\ values[1] < values[Len(values)]

\* C4: register_meter with a meter_id that is in the account list fails with the
\* duplicate-meter error and changes nothing (account list, latest_readings, the
\* buffer, the clock and the stored data), and the account list never holds a
\* meter_id twice.
C4_DuplicateRegister ==
    [][/\ (/\ ret'.op = "register"
            /\ \E i \in DOMAIN accounts_file : accounts_file[i].meter_ID = ret'.meter_id)
          => /\ ret'.status = "error"
             /\ ret'.error = "Meter ID already exists"
             /\ UNCHANGED <<accounts_file, latest_readings, daily_cache,
                            current_time_file, daily_readings, month_readings>>
       /\ \A i, j \in DOMAIN accounts_file' :
            accounts_file'[i].meter_ID = accounts_file'[j].meter_ID => i = j]_vars

\* a refused registration of the second of two registered meters
C4_Witness ==
    /\ ret.op = "register" /\ ret.status = "error"
    /\ Len(accounts_file) = 2
    /\ accounts_file[2].meter_ID = ret.meter_id

\* the units _calculate_next_time knows
KnownUnits == {"minutes", "hours", "days", "months"}

\* C5: a collect call with no registered meter, or with a unit that is not known,
\* returns its error and mutates nothing: the clock, latest_readings, the buffer,
\* the daily records and the monthly totals are the same after it as before it.
C5_FailedValidation ==
    [][(/\ ret'.op = "collect"
        /\ (accounts_file = <<>> \/ ret'.unit \notin KnownUnits))
          => /\ ret'.status = "error"
             /\ UNCHANGED <<current_time_file, latest_readings, daily_cache,
                            daily_readings, month_readings, accounts_file, rng>>]_vars

\* a collect refused for its unit, with a meter registered and readings stored
C5_Witness ==
    /\ ret.op = "collect" /\ ret.status = "error"
    /\ ret.error = "Invalid time unit"
    /\ accounts_file # <<>>
    /\ daily_readings # EmptyMap

\* C9: the clock after a successful collect(unit, amount) is
\* _calculate_next_time(clock before, unit, amount), and after a collect whose
\* walk raised part-way the stored clock has the value it had before the call.
C9_ClockAfterCollect ==
    [][/\ (ret'.op = "collect" /\ ret'.status = "ok") =>
            /\ current_time_file' =
                  <<calculate_next_time(get_current_time, ret'.unit, ret'.value).value>>
            /\ ret'.from = get_current_time
       /\ (ret'.op = "collect" /\ ret'.status = "failed") =>
            /\ current_time_file' = current_time_file
            /\ current_time_file' = <<ret'.from>>]_vars

\* a collect whose walk raised after it had generated readings and written a day
C9_Witness ==
    /\ ret.op = "collect" /\ ret.status = "failed"
    /\ current_time_file = <<ret.from>>
    /\ daily_readings # EmptyMap
    /\ daily_cache # <<>>
    /\ \E m \in DOMAIN latest_readings : latest_readings[m] > 0

\* C10: after a successful reset_system(), whatever the state before it, there are
\* no daily records, no monthly totals and no accounts, the clock is
\* 2024-05-01T00:00, and latest_readings and the buffer are empty; the call
\* returns True.
C10_ResetToInitial ==
    ret.op = "reset" =>
        /\ ret.value = (ret.status = "ok")
        /\ ret.value =>
              /\ daily_readings = EmptyMap
              /\ month_readings = <<>>
              /\ accounts_file = <<>>
              /\ get_current_time = Epoch
              /\ current_time_file = <<DT(2024, 5, 1, 0, 0)>>
              /\ latest_readings = EmptyMap
              /\ daily_cache = <<>>

\* a successful reset of a system with a meter, daily records, values and a clock
\* past the start
C10_Witness ==
    /\ ret.op = "reset" /\ ret.value
    /\ ret.before.accounts > 0
    /\ ret.before.daily_records
    /\ ret.before.latest
    /\ ret.before.current_time > Epoch

\* the last day of month m of year y: the day before the first of the next month
LastDayOfMonth(y, m) ==
    Day((IF m = 12 THEN DT(y + 1, 1, 1, 0, 0) ELSE DT(y, m + 1, 1, 0, 0)) - TimedeltaDays(1))

\* the smaller of two numbers
Min(a, b) == IF a < b THEN a ELSE b

\* C6: _calculate_next_time(current, 'months', amount) returns the time whose
\* month is current's month plus amount, the year carried, whose day is the
\* smaller of current's day and the last day of that month, and whose hour and
\* minute are current's; 2024-01-31 plus one month is 2024-02-29, and 2024-03-31
\* plus one month is 2024-04-30.
C6_AdvanceMonths ==
    (ret.op = "advance" /\ ret.unit = "months") =>
        /\ ~ret.next.raised
        /\ LET current == ret.current
               next == ret.next.value
           IN  /\ Year(next) * 12 + Month(next) = Year(current) * 12 + Month(current) + ret.amount
               /\ Day(next) = Min(Day(current), LastDayOfMonth(Year(next), Month(next)))
               /\ Hour(next) = Hour(current)
               /\ Minute(next) = Minute(current)
               /\ (current = DT(2024, 1, 31, 0, 0) /\ ret.amount = 1)
                     => next = DT(2024, 2, 29, 0, 0)
               /\ (current = DT(2024, 3, 31, 0, 0) /\ ret.amount = 1)
                     => next = DT(2024, 4, 30, 0, 0)

\* 2024-01-31 advanced by one month: the day is brought down to February's last
C6_Witness ==
    /\ ret.op = "advance" /\ ret.unit = "months" /\ ret.amount = 1
    /\ ret.current = DT(2024, 1, 31, 0, 0)
    /\ isoformat(ret.next.value) = <<2024, 2, 29, 0, 0, 0>>

\* the archive passes of the last call that did not raise
ArchivePasses == {log[i] : i \in {j \in DOMAIN log : log[j].kind = "archive" /\ ~log[j].raised}}

\* the total of meter m under key k in monthly totals: <<>> when there is none
TotalOf(totals, m, k) ==
    IF m \in DOMAIN totals /\ k \in DOMAIN totals[m] THEN <<totals[m][k]>> ELSE <<>>

MetersOf(e) == (DOMAIN e.monthly_before) \cup (DOMAIN e.monthly_after)

KeysOf(e, m) ==
    (IF m \in DOMAIN e.monthly_before THEN DOMAIN e.monthly_before[m] ELSE {})
    \cup (IF m \in DOMAIN e.monthly_after THEN DOMAIN e.monthly_after[m] ELSE {})

\* the key of the month two months before the month of boundary b
KeyTwoMonthsBefore(b) == strftime_Ym(MonthBefore(MonthBefore(b)))

\* the meters that have a daily record in the month of key k
MetersRecordedIn(dirs, k) ==
    IF k \in DOMAIN dirs THEN UNION {DOMAIN dirs[k][f] : f \in DOMAIN dirs[k]} ELSE {}

\* C7: an archive pass at the boundary of month M changes the monthly totals under
\* the key of M-2 only, and from 2024-07 on it sets the total of every meter that
\* has a daily record in M-2; a pass at the boundary of 2024-05 or of 2024-06
\* changes neither the monthly totals nor the daily detail.
C7_ArchivesMonthBeforeLast ==
    \A e \in ArchivePasses :
        /\ \A m \in MetersOf(e) : \A k \in KeysOf(e, m) :
              TotalOf(e.monthly_after, m, k) # TotalOf(e.monthly_before, m, k)
                  => k = KeyTwoMonthsBefore(e.boundary)
        /\ e.boundary >= DT(2024, 7, 1, 0, 0) =>
              \A m \in MetersRecordedIn(e.daily_before, KeyTwoMonthsBefore(e.boundary)) :
                  TotalOf(e.monthly_after, m, KeyTwoMonthsBefore(e.boundary)) # <<>>
        /\ strftime_Ym(e.boundary) \in {<<2024, 5>>, <<2024, 6>>} =>
              /\ e.monthly_after = e.monthly_before
              /\ e.daily_after = e.daily_before

\* a pass at the boundary of 2024-07 that set the total of May for a meter, in a
\* call that also passed the boundary of 2024-06 with daily records stored
C7_Witness ==
    /\ \E e \in ArchivePasses :
          /\ e.boundary = DT(2024, 7, 1, 0, 0)
          /\ \E m \in DOMAIN e.monthly_after :
                /\ TotalOf(e.monthly_after, m, <<2024, 5>>) # <<>>
                /\ TotalOf(e.monthly_before, m, <<2024, 5>>) = <<>>
    /\ \E e \in ArchivePasses :
          /\ e.boundary = DT(2024, 6, 1, 0, 0)
          /\ e.daily_before # EmptyMap

\* C8 as stated: after an archive pass at boundary B no month directory of the
\* daily detail for a month before the month preceding B remains.
C8_AsStated ==
    \A e \in ArchivePasses :
        \A d \in DOMAIN e.daily_after : ~(DT(d[1], d[2], 1, 0, 0) < MonthBefore(e.boundary))

\* the calls of _process_daily_data made by the last call, and the writes of a
\* daily file among the entries of the log
Materializations == {i \in DOMAIN log : log[i].kind = "materialize"}
DailyWrites == {i \in DOMAIN log : log[i].kind = "flush"}

\* C11 as stated: a register or collect call leaves the contents of every daily
\* record that is there before it and after it as they were.
C11_AsStated ==
    [][ret'.op \in {"register", "collect"} =>
        \A d \in DOMAIN daily_readings : \A f \in DOMAIN daily_readings[d] :
            (d \in DOMAIN daily_readings' /\ f \in DOMAIN daily_readings'[d])
                => daily_readings'[d][f] = daily_readings[d][f]]_vars

\* C12: a call of the Daily Materializer that finds the buffer empty writes
\* nothing: the daily detail (month directories and daily records) is the same
\* after it as before it, the buffer is still empty and nothing is raised.
C12_EmptyFlushWritesNothing ==
    \A i \in Materializations :
        log[i].buffered = 0 =>
            /\ log[i].unchanged
            /\ log[i].left = 0
            /\ ~log[i].raised

\* a collect in which a daily record was written and the materializer was then
\* called, at the next midnight, on an empty buffer
C12_Witness ==
    /\ ret.op = "collect" /\ ret.status = "ok"
    /\ \E i \in DailyWrites : \E j \in Materializations :
          /\ i < j
          /\ log[j].buffered = 0
          /\ log[i].date = log[j].date
          /\ log[j].date \in DailyRecordDays(daily_readings)

\* C13 as stated: at every flush that writes (the buffer is not empty and the
\* write does not raise) every entry of the buffer has its reading_time on the
\* calendar day the flush is keyed to, and the buffer is empty after it.
C13_AsStated ==
    \A i \in Materializations :
        (log[i].buffered > 0 /\ ~log[i].raised) =>
            /\ log[i].days \subseteq {log[i].date}
            /\ log[i].left = 0

\* the readings of every meter in every daily record stored are in the order of
\* their times of day
RecordsOrdered(dirs) ==
    \A d \in DOMAIN dirs : \A f \in DOMAIN dirs[d] : \A m \in DOMAIN dirs[d][f] :
        LET readings == dirs[d][f][m].readings
        IN  \A i, j \in DOMAIN readings :
                i < j => ~TextLess(readings[j].time, readings[i].time)

\* C18 as stated: in every daily record the Daily Materializer has written, each
\* meter's readings are in non-decreasing order of time of day.
C18_AsStated == RecordsOrdered(daily_readings)

\* the month boundaries of the simulation's first year: 00:00 on day 1
MonthBoundaries == {DT(2024, m, 1, 0, 0) : m \in 5..12}

\* C14 as stated, for one call: a collect with a positive amount that takes the
\* clock from before a month boundary to after 01:00 of that day has invoked the
\* Monthly Archiver at that boundary.  (With positive amounts the clock never goes
\* back, so no earlier call can have invoked it.)
C14_AsStated ==
    [][(ret'.op = "collect" /\ ret'.status = "ok" /\ ret'.value > 0) =>
        \A b \in MonthBoundaries :
            (ret'.from < b /\ ret'.new_time > b + TimedeltaHours(1)) =>
                \E i \in DOMAIN log' : log'[i].kind = "archive" /\ log'[i].boundary = b]_vars

\* C15 as stated: when an archive pass has removed the directory of a month from
\* the daily detail, every meter that had a daily record in that directory has an
\* entry for that month in the monthly totals.
C15_AsStated ==
    \A e \in ArchivePasses :
        \A d \in (DOMAIN e.daily_before) \ (DOMAIN e.daily_after) :
            \A m \in MetersRecordedIn(e.daily_before, d) :
                TotalOf(e.monthly_after, m, d) # <<>>

\* reading r, as a collect returned it, is in the daily record of its own day
Stored(dirs, r) ==
    LET d == SubSeq(r.reading_time, 1, 2)
        f == SubSeq(r.reading_time, 1, 3)
    IN  /\ d \in DOMAIN dirs
        /\ f \in DOMAIN dirs[d]
        /\ r.meter_ID \in DOMAIN dirs[d][f]
        /\ \E i \in DOMAIN dirs[d][f][r.meter_ID].readings :
              dirs[d][f][r.meter_ID].readings[i] =
                  [time |-> SubSeq(r.reading_time, 4, 5), value |-> r.meter_value]

\* the month directories the Retention Pruner removed during the last call
PrunedInCall ==
    UNION {(DOMAIN e.daily_before) \ (DOMAIN e.daily_after) : e \in ArchivePasses}

C17_EachDayWrittenOnce ==
    \A i, j \in DailyWrites : log[i].date = log[j].date => i = j

\* a collect of two days that began with a maintenance flush of a buffered
\* registration reading: it wrote the records of three days
C17_Witness ==
    /\ ret.op = "collect" /\ ret.status = "ok" /\ ret.unit = "days" /\ ret.value = 2
    /\ Cardinality(DailyWrites) = 3
    /\ \E i \in DailyWrites : TextLess(log[i].date, strftime_Ymd(ret.from))

\* C19: an archive pass for month X changes the monthly totals only at the entries
\* (meter, X) of meters that have daily detail in X: every entry for another
\* month and every entry of a meter without detail in X is the same after the
\* pass as before it, no meter is dropped, and no meter without detail in X is
\* added.
C19_ArchiveChangesItsMonthOnly ==
    \A e \in ArchivePasses :
        /\ \A m \in MetersOf(e) : \A k \in KeysOf(e, m) :
              (\/ k # KeyTwoMonthsBefore(e.boundary)
               \/ m \notin MetersRecordedIn(e.daily_before, KeyTwoMonthsBefore(e.boundary)))
                  => TotalOf(e.monthly_after, m, k) = TotalOf(e.monthly_before, m, k)
        /\ DOMAIN e.monthly_before \subseteq DOMAIN e.monthly_after
        /\ DOMAIN e.monthly_after \subseteq
              (DOMAIN e.monthly_before)
                  \cup MetersRecordedIn(e.daily_before, KeyTwoMonthsBefore(e.boundary))

\* a pass that set a meter's total of its month and found, and kept, the meter's
\* total of the month before
C19_Witness ==
    \E e \in ArchivePasses : \E m \in DOMAIN e.monthly_before :
        LET x == KeyTwoMonthsBefore(e.boundary)
            w == strftime_Ym(MonthBefore(MonthBefore(MonthBefore(e.boundary))))
        IN  /\ TotalOf(e.monthly_before, m, w) # <<>>
            /\ TotalOf(e.monthly_after, m, w) = TotalOf(e.monthly_before, m, w)
            /\ TotalOf(e.monthly_before, m, x) = <<>>
            /\ TotalOf(e.monthly_after, m, x) # <<>>

\* the daily records of a month directory that hold readings of meter m
RecordsWith(month_files, m) == {f \in DOMAIN month_files : m \in DOMAIN month_files[f]}

\* the values of meter m's earliest readings in the month: those of the earliest
\* time of day in the record of the earliest date; and of its latest readings
EarliestValues(month_files, m) ==
    LET f == CHOOSE g \in RecordsWith(month_files, m) :
                \A h \in RecordsWith(month_files, m) : ~TextLess(h, g)
        rs == month_files[f][m].readings
    IN  {rs[i].value : i \in {j \in DOMAIN rs :
                                 \A k \in DOMAIN rs : ~TextLess(rs[k].time, rs[j].time)}}

LatestValues(month_files, m) ==
    LET f == CHOOSE g \in RecordsWith(month_files, m) :
                \A h \in RecordsWith(month_files, m) : ~TextLess(g, h)
        rs == month_files[f][m].readings
    IN  {rs[i].value : i \in {j \in DOMAIN rs :
                                 \A k \in DOMAIN rs : ~TextLess(rs[j].time, rs[k].time)}}

\* C20: the total an archive pass stores for (meter, month X) is the value of the
\* meter's chronologically last reading minus the value of its chronologically
\* first reading over the daily records of X present at the pass (by date of the
\* record, then by time of day), for every meter in one of those records.
C20_TotalIsLastMinusFirst ==
    \A e \in ArchivePasses :
        MonthBefore(MonthBefore(e.boundary)) >= Epoch =>
            \A m \in MetersRecordedIn(e.daily_before, KeyTwoMonthsBefore(e.boundary)) :
                \E first \in EarliestValues(e.daily_before[KeyTwoMonthsBefore(e.boundary)], m) :
                \E last \in LatestValues(e.daily_before[KeyTwoMonthsBefore(e.boundary)], m) :
                    TotalOf(e.monthly_after, m, KeyTwoMonthsBefore(e.boundary))
                        = <<last - first>>

\* a pass over a month of 31 daily records that stored a total above zero
C20_Witness ==
    \E e \in ArchivePasses :
        LET x == KeyTwoMonthsBefore(e.boundary)
        IN  /\ x \in DOMAIN e.daily_before
            /\ Cardinality(DOMAIN e.daily_before[x]) = 31
            /\ \E m \in MetersRecordedIn(e.daily_before, x) :
                  /\ Cardinality(RecordsWith(e.daily_before[x], m)) = 31
                  /\ TotalOf(e.monthly_after, m, x) # <<>>
                  /\ TotalOf(e.monthly_after, m, x)[1] > 0

\* the archive passes, among the entries of a log, that did not raise
PassesOf(l) == {i \in DOMAIN l : l[i].kind = "archive" /\ ~l[i].raised}

\* every daily record of `dirs` is in `later`, with the same contents
RecordsKept(dirs, later) ==
    \A d \in DOMAIN dirs :
        /\ d \in DOMAIN later
        /\ \A f \in DOMAIN dirs[d] : f \in DOMAIN later[d] /\ later[d][f] = dirs[d][f]

GridSlots(c, c2) ==
    {t \in (c + 1)..c2 :
        /\ t % TimedeltaMinutes(30) = 0
        /\ MinuteOfDay(t) >= TimedeltaMinutes(90)
        /\ MinuteOfDay(t) <= TimedeltaHours(23) + TimedeltaMinutes(30)}

\* C23 as stated: a collect that advances the clock from c to c2, c < c2, returns
\* for every registered meter a reading at every half-hour grid timestamp t with
\* c < t <= c2 whose time of day lies between 01:30 and 23:30.
C23_AsStated ==
    (ret.op = "collect" /\ ret.status = "ok" /\ ret.from < ret.new_time) =>
        \A k \in DOMAIN accounts_file : \A t \in GridSlots(ret.from, ret.new_time) :
            \E i \in DOMAIN ret.all_readings :
                /\ ret.all_readings[i].meter_ID = accounts_file[k].meter_ID
                /\ ret.all_readings[i].reading_time = isoformat(t)

\* C24 as stated, for two successive calls: a successful collect with a positive
\* amount returns no reading with the meter and the timestamp of a reading the
\* successful collect with a positive amount before it returned.
C24_AsStated ==
    [][(/\ ret.op = "collect" /\ ret.status = "ok" /\ ret.value > 0
        /\ ret'.op = "collect" /\ ret'.status = "ok" /\ ret'.value > 0) =>
        \A i \in DOMAIN ret.all_readings : \A j \in DOMAIN ret'.all_readings :
            ~(/\ ret.all_readings[i].meter_ID = ret'.all_readings[j].meter_ID
              /\ ret.all_readings[i].reading_time = ret'.all_readings[j].reading_time)]_vars

\* C25 as stated: no daily record holds an entry whose time of day lies in the hour
\* from 00:00 to 00:59, in every state reached through register and collect calls.
C25_AsStated ==
    \A d \in DOMAIN daily_readings : \A f \in DOMAIN daily_readings[d] :
        \A m \in DOMAIN daily_readings[d][f] :
            \A i \in DOMAIN daily_readings[d][f][m].readings :
                daily_readings[d][f][m].readings[i].time[1] # 0

\* C26: a register call or a successful collect call with a positive amount leaves
\* every total that MonthlyTotals holds for a (meter, month) in place and unchanged.
C26_TotalsAreKept ==
    [][(\/ ret'.op = "register"
        \/ ret'.op = "collect" /\ ret'.status = "ok" /\ ret'.value > 0) =>
        \A m \in DOMAIN MonthlyData(month_readings) :
            \A k \in DOMAIN MonthlyData(month_readings)[m] :
                TotalOf(MonthlyData(month_readings'), m, k) =
                    <<MonthlyData(month_readings)[m][k]>>]_vars

\* a collect made a pass of the Monthly Archiver that found totals stored and stored
\* the total of a further month
C26_Witness ==
    /\ ret.op = "collect" /\ ret.status = "ok" /\ ret.value > 0
    /\ \E i \in PassesOf(log) :
          /\ log[i].monthly_before # EmptyMap
          /\ log[i].monthly_after # log[i].monthly_before
          /\ \A m \in DOMAIN log[i].monthly_before : \A k \in DOMAIN log[i].monthly_before[m] :
                TotalOf(log[i].monthly_after, m, k) = <<log[i].monthly_before[m][k]>>

\* the amount of a request, in minutes
AmountOf(r) ==
    IF r.unit = "hours" THEN TimedeltaHours(r.value) ELSE TimedeltaMinutes(r.value)

\* both requests have returned their summary
BothServed == \A i \in Requests : requests[i].pc = "done" /\ requests[i].status = "ok"

\* request j read the clock that request i saved: i was served before j began
ServedBefore(i, j) ==
    requests[i].current_time = Epoch /\ requests[j].current_time = requests[i].next_time

\* C22: collection requests are safe only when serialized.  When one collect
\* request is served before the other begins, the clock ends advanced by the
\* amounts of both and no flush of one writes and clears readings of the other.
\* When the two are served at the same time, each reading the clock before the
\* other saves it, the clock ends advanced by the amount of one of them only.
C22_SafeOnlyWhenSerialized ==
    BothServed =>
        /\ \A i, j \in Requests :
              ServedBefore(i, j) =>
                  /\ current_time_file =
                        <<Epoch + AmountOf(requests[i]) + AmountOf(requests[j])>>
                  /\ ~requests[i].took /\ ~requests[j].took
        /\ (\A i \in Requests : requests[i].current_time = Epoch) =>
              \E k \in Requests :
                  /\ current_time_file = <<Epoch + AmountOf(requests[k])>>
                  /\ current_time_file[1] <
                        Epoch + AmountOf(requests[1]) + AmountOf(requests[2])

\* two requests served at the same time have ended: the flush of one wrote and
\* cleared readings the walk of the other had appended, and the clock is advanced
\* by the amount of one of them only
C22_Witness ==
    /\ BothServed
    /\ \A i \in Requests : requests[i].current_time = Epoch
    /\ \E i \in Requests : requests[i].took /\ requests[i].all_readings # <<>>
    /\ \E k \in Requests : current_time_file = <<Epoch + AmountOf(requests[k])>>
    /\ current_time_file[1] < Epoch + AmountOf(requests[1]) + AmountOf(requests[2])

====
